---------------------------- MODULE Spec2Model ----------------------------
(***************************************************************************)
(* Model of src/main.py: the Flask handler index() and the vectorisation   *)
(* pipeline image_to_equations() with bezier_to_equations().               *)
(*                                                                         *)
(* Representation choices                                                  *)
(*  - A point is a pair <<x, y>> of integers in image space.               *)
(*  - An output line is kept as the values substituted into its f-string   *)
(*    (kind + numbers), a text as the sequence of its lines.               *)
(*  - A Python float that is an integer divided by 3.0 is kept as the      *)
(*    exact fraction [num, den]; the rounding of the double (below 1e-15   *)
(*    here) is under the resolution of the model.                          *)
(*  - The OpenCV calls (imdecode, findContours, approxPolyDP) are library  *)
(*    code: their results are nondeterministic choices over the values     *)
(*    their contracts allow.                                               *)
(***************************************************************************)
EXTENDS Integers, Sequences, FiniteSets, TLC

VARIABLES
    pc,               \* position inside index() / image_to_equations()
    method,           \* request.method
    inaccuracy_str,   \* request.form.get("inaccuracy", "0.002")
    file,             \* request.files.get("image"), by what it holds
    inaccuracy_value, \* float(inaccuracy_str) once validated
    img_height,       \* image_bgr.shape[0]
    contours,         \* result of cv2.findContours
    ci,               \* index of the contour the for-loop is at (1-based)
    approx,           \* result of cv2.approxPolyDP for the current contour
    i,                \* index of the segment loop (0-based as in the code)
    lines,            \* the list the equations are appended to
    equations,        \* index(): equations
    error,            \* index(): error
    fileRead,         \* history: file.read() / cv2.imdecode were executed
    calls,            \* history: number of calls of image_to_equations
    approxs           \* history: approxPolyDP's result per visited contour

vars == << pc, method, inaccuracy_str, file, inaccuracy_value, img_height,
           contours, ci, approx, i, lines, equations, error, fileRead,
           calls, approxs >>

-----------------------------------------------------------------------------
(* Bounds of the model *)

MaxContours == 2      \* contours returned by findContours
MaxPts == 2           \* points per contour
MaxV == 3             \* vertices of a polygon in the segment-loop model

(* Input alphabets *)

ToleranceStrings == {"abc", "-1", "0", "0.002", "nan"}
\* "missing": no file or an empty filename; "empty": a named file of zero
\* bytes; "corrupt": bytes that are no image; "image": a decodable image
Files == {"missing", "empty", "corrupt", "image"}
SpecPoints == {<<0, 0>>, <<1, 0>>, <<1, 1>>}
SpecHeights == {2}
PolyCoords == {0, 1, 10}
PolyPoints == PolyCoords \X PolyCoords
PolyHeights == {11, 12}

NoValue == [ok |-> FALSE, nan |-> FALSE, milli |-> 0]

-----------------------------------------------------------------------------
(* Pure helpers *)

Min(a, b) == IF a <= b THEN a ELSE b
Max(a, b) == IF a >= b THEN a ELSE b

\* float(s): ValueError for text that is no float literal; "nan" parses to
\* NaN; values are kept in thousandths.
ParseFloat(s) ==
    CASE s = "-1"    -> [ok |-> TRUE,  nan |-> FALSE, milli |-> -1000]
      [] s = "0"     -> [ok |-> TRUE,  nan |-> FALSE, milli |-> 0]
      [] s = "0.002" -> [ok |-> TRUE,  nan |-> FALSE, milli |-> 2]
      [] s = "nan"   -> [ok |-> TRUE,  nan |-> TRUE,  milli |-> 0]
      [] OTHER       -> NoValue

\* inaccuracy_value <= 0 ; every comparison with NaN is False
LeZero(v) == ~v.nan /\ v.milli <= 0

\* the try block of index(): float() raised, or the value is <= 0
ToleranceRejected(s) ==
    LET v == ParseFloat(s) IN ~v.ok \/ LeZero(v)

ValidationMsg == "Invalid inaccuracy value. Please enter a positive number."
UploadMsg == "Please upload an image file."
DecodeMsg == "Error processing image: Could not decode image."
LibraryMsg == "Error processing image: cv2.error"
FallbackLine ==
    [kind |-> "comment",
     text |-> "# No contours/equations were detected. Try a clearer or higher-contrast image."]

-----------------------------------------------------------------------------
(* Numbers: a float is kept as the exact fraction num/den *)

Float(n) == [num |-> n, den |-> 1]           \* float(n) of an int
\* Div3 with a seeded fault: floor division (// 3) in place of / 3.0
Div3Floor(n) == [num |-> n \div 3, den |-> 1]
Div3(n) == [num |-> n, den |-> 3]            \* n / 3.0
FlipFrac(h, r) == [num |-> h * r.den - r.num, den |-> r.den]   \* h - r

X(p) == p[1]
Y(p) == p[2]

\* bezier_to_equations with a seeded fault: the control points' y is left unflipped
bezier_controls_unflipped(start, c1, c2, end, h) ==
    [xs |-> << X(start), X(c1), X(c2), X(end) >>,
     ys |-> << FlipFrac(h, Y(start)), Y(c1), Y(c2), FlipFrac(h, Y(end)) >>]

\* bezier_to_equations(start, c1, c2, end, img_height): the four numbers
\* substituted into equation_x and into equation_y, in the order they are
\* written; every y is img_height - y.
bezier_to_equations(start, c1, c2, end, h) ==
    [xs |-> << X(start), X(c1), X(c2), X(end) >>,
     ys |-> << FlipFrac(h, Y(start)), FlipFrac(h, Y(c1)),
               FlipFrac(h, Y(c2)), FlipFrac(h, Y(end)) >>]

VerticalLine(x, lo, hi) == [kind |-> "vertical", at |-> x, lo |-> lo, hi |-> hi]
HorizontalLine(y, lo, hi) == [kind |-> "horizontal", at |-> y, lo |-> lo, hi |-> hi]
ParametricCurve(b) == [kind |-> "curve", xs |-> b.xs, ys |-> b.ys]

\* SegmentEquation with a seeded fault: the horizontal test comes first
SegmentEquationHorizontalFirst(start, end, h) ==
    LET x1 == X(start)
        y1 == Y(start)
        x2 == X(end)
        y2 == Y(end)
    IN  IF y2 - y1 = 0
          THEN [kind |-> "horizontal", at |-> h - y1,
                lo |-> Min(x1, x2), hi |-> Max(x1, x2)]
        ELSE IF x2 - x1 = 0
          THEN [kind |-> "vertical", at |-> x1,
                lo |-> h - Max(y1, y2), hi |-> h - Min(y1, y2)]
        ELSE [kind |-> "curve",
              xs |-> << Float(x1), Div3(2 * x1 + x2), Div3(x1 + 2 * x2), Float(x2) >>,
              ys |-> << Float(h - y1), FlipFrac(h, Div3(2 * y1 + y2)),
                        FlipFrac(h, Div3(y1 + 2 * y2)), Float(h - y2) >>]

\* SegmentEquation with a seeded fault: the bounds are taken in vertex order, without
\* min / max
SegmentEquationUnordered(start, end, h) ==
    LET x1 == X(start)
        y1 == Y(start)
        x2 == X(end)
        y2 == Y(end)
    IN  IF x2 - x1 = 0
          THEN [kind |-> "vertical", at |-> x1, lo |-> h - y1, hi |-> h - y2]
        ELSE IF y2 - y1 = 0
          THEN [kind |-> "horizontal", at |-> h - y1, lo |-> x1, hi |-> x2]
        ELSE [kind |-> "curve",
              xs |-> << Float(x1), Div3(2 * x1 + x2), Div3(x1 + 2 * x2), Float(x2) >>,
              ys |-> << Float(h - y1), FlipFrac(h, Div3(2 * y1 + y2)),
                        FlipFrac(h, Div3(y1 + 2 * y2)), Float(h - y2) >>]

\* body of the segment loop: the line appended for the segment start -> end
SegmentEquation(start, end, h) ==
    LET x1 == X(start)
        y1 == Y(start)
        x2 == X(end)
        y2 == Y(end)
        dx == x2 - x1
        dy == y2 - y1
    IN  IF dx = 0
          THEN VerticalLine(x1, h - Max(y1, y2), h - Min(y1, y2))
        ELSE IF dy = 0
          THEN HorizontalLine(h - y1, Min(x1, x2), Max(x1, x2))
        ELSE
          LET c1 == << Div3(2 * x1 + x2), Div3(2 * y1 + y2) >>
              c2 == << Div3(x1 + 2 * x2), Div3(y1 + 2 * y2) >>
          IN  ParametricCurve(
                bezier_to_equations(<< Float(x1), Float(y1) >>, c1, c2,
                                    << Float(x2), Float(y2) >>, h))

\* SegmentCount with a seeded fault: the closing segment is left out
SegmentCountOpen(poly) == Len(poly) - 1

\* range(len(approx)): the number of iterations of the segment loop
SegmentCount(poly) == Len(poly)

\* approx[i][0] and approx[(i + 1) % len(approx)][0], i 0-based
SegmentStart(poly, k) == poly[k + 1]
SegmentEnd(poly, k) == poly[((k + 1) % Len(poly)) + 1]

\* TooShort with a seeded fault: only the empty sequence is skipped
TooShortOffByOne(s) == Len(s) < 1

\* len(contour) < 2 / len(approx) < 2: the two "continue" guards
TooShort(s) == Len(s) < 2

\* ResultText with a seeded fault: no fallback line
ResultTextNoFallback(ls) == ls

\* the return of image_to_equations: the fallback line, or the lines joined
\* by newlines (a text is the sequence of its lines)
ResultText(ls) == IF ls = << >> THEN << FallbackLine >> ELSE ls

\* ExceptionError with a seeded fault: the exception is swallowed
ExceptionSwallowed(msg) == ""

\* except Exception as e: error = f"Error processing image: {e}"
ExceptionError(msg) == msg

-----------------------------------------------------------------------------
(* Library results *)

RECURSIVE SeqsUpTo(_, _)
SeqsUpTo(S, n) ==
    IF n = 0 THEN {<< >>}
    ELSE LET shorter == SeqsUpTo(S, n - 1)
         IN  shorter \cup {Append(s, x) : s \in {t \in shorter : Len(t) = n - 1}, x \in S}

\* CHAIN_APPROX_SIMPLE: no point is repeated by the next one of the closed loop
IsContour(c) ==
    \A k \in 1..Len(c) : Len(c) >= 2 => c[k] # c[(k % Len(c)) + 1]

Contours == {c \in SeqsUpTo(SpecPoints, MaxPts) : IsContour(c)}
ContourLists == SeqsUpTo(Contours, MaxContours)

\* the subsequence of c at the (sorted) index set K
RECURSIVE Pick(_, _)
Pick(c, K) ==
    IF K = {} THEN << >>
    ELSE LET m == CHOOSE k \in K : \A j \in K : k <= j
         IN  << c[m] >> \o Pick(c, K \ {m})

\* cv2.approxPolyDP(contour, epsilon, True): some of the contour's points,
\* at least one
ApproxResults(c) == {Pick(c, K) : K \in (SUBSET (1..Len(c))) \ {{}}}

-----------------------------------------------------------------------------
(* index(): one request *)

Init ==
    /\ pc = "start"
    /\ method \in {"GET", "POST"}
    /\ inaccuracy_str \in ToleranceStrings
    /\ file \in Files
    /\ inaccuracy_value = NoValue
    /\ img_height = 0
    /\ contours = << >>
    /\ ci = 1
    /\ approx = << >>
    /\ i = 0
    /\ lines = << >>
    /\ equations = << >>
    /\ error = ""
    /\ fileRead = FALSE
    /\ calls = 0
    /\ approxs = << >>

request == << method, inaccuracy_str, file >>
pipeline == << img_height, contours, ci, approx, i, lines, approxs >>

\* GET: the empty page
Get ==
    /\ pc = "start"
    /\ method = "GET"
    /\ pc' = "responded"
    /\ equations' = << >>
    /\ error' = ""
    /\ UNCHANGED << request, inaccuracy_value, pipeline, fileRead, calls >>

\* POST: float(inaccuracy_str), the <= 0 test and the early return
ValidateTolerance ==
    /\ pc = "start"
    /\ method = "POST"
    /\ IF ToleranceRejected(inaccuracy_str)
         THEN /\ error' = ValidationMsg
              /\ equations' = << >>
              /\ pc' = "responded"
              /\ UNCHANGED inaccuracy_value
         ELSE /\ inaccuracy_value' = ParseFloat(inaccuracy_str)
              /\ pc' = "file"
              /\ UNCHANGED << equations, error >>
    /\ UNCHANGED << request, pipeline, fileRead, calls >>

\* request.files.get("image"); no file or an empty filename returns early
GetFile ==
    /\ pc = "file"
    /\ IF file = "missing"
         THEN /\ error' = UploadMsg
              /\ equations' = << >>
              /\ pc' = "responded"
         ELSE /\ pc' = "read"
              /\ UNCHANGED << equations, error >>
    /\ UNCHANGED << request, inaccuracy_value, pipeline, fileRead, calls >>

\* file.read(), cv2.imdecode and the call of image_to_equations up to
\* findContours. imdecode returns None for bytes that are no image, and
\* image_to_equations raises the ValueError index() catches; for an empty
\* buffer imdecode itself either raises (caught the same way, before the
\* call) or returns None, by the library's version.
ReadAndDecode ==
    /\ pc = "read"
    /\ fileRead' = TRUE
    /\ \/ /\ file = "empty"
          /\ error' = ExceptionError(LibraryMsg)
          /\ pc' = "respond"
          /\ UNCHANGED << calls, img_height, contours >>
       \/ /\ file \in {"empty", "corrupt"}
          /\ calls' = calls + 1
          /\ error' = ExceptionError(DecodeMsg)
          /\ pc' = "respond"
          /\ UNCHANGED << img_height, contours >>
       \/ /\ file = "image"
          /\ calls' = calls + 1
          /\ img_height' \in SpecHeights
          /\ contours' \in ContourLists
          /\ pc' = "contour"
          /\ UNCHANGED error
    /\ lines' = << >>
    /\ ci' = 1
    /\ UNCHANGED << request, inaccuracy_value, approx, i, equations, approxs >>

\* for contour in contours: the two "continue" guards and approxPolyDP.
\* With a NaN epsilon the library either raises or answers.
NextContour ==
    /\ pc = "contour"
    /\ ci <= Len(contours)
    /\ IF TooShort(contours[ci])
         THEN /\ ci' = ci + 1
              /\ approxs' = Append(approxs, << >>)
              /\ UNCHANGED << pc, approx, i, error >>
         ELSE \/ /\ inaccuracy_value.nan
                 /\ error' = ExceptionError(LibraryMsg)
                 /\ pc' = "respond"
                 /\ UNCHANGED << ci, approx, i, approxs >>
              \/ \E a \in ApproxResults(contours[ci]) :
                   /\ approx' = a
                   /\ approxs' = Append(approxs, a)
                   /\ IF TooShort(a)
                        THEN ci' = ci + 1 /\ UNCHANGED << pc, i >>
                        ELSE pc' = "segment" /\ i' = 0 /\ UNCHANGED ci
                   /\ UNCHANGED error
    /\ UNCHANGED << request, inaccuracy_value, img_height, contours, lines,
                    equations, fileRead, calls >>

\* one iteration of for i in range(len(approx))
Segment ==
    /\ pc = "segment"
    /\ i < SegmentCount(approx)
    /\ lines' = Append(lines,
                       SegmentEquation(SegmentStart(approx, i),
                                       SegmentEnd(approx, i), img_height))
    /\ i' = i + 1
    /\ UNCHANGED << request, inaccuracy_value, img_height, contours, ci,
                    approx, equations, error, fileRead, calls, approxs, pc >>

\* the segment loop is exhausted: on to the next contour
EndSegments ==
    /\ pc = "segment"
    /\ i >= SegmentCount(approx)
    /\ ci' = ci + 1
    /\ pc' = "contour"
    /\ UNCHANGED << request, inaccuracy_value, img_height, contours, approx,
                    i, lines, equations, error, fileRead, calls, approxs >>

\* the contour loop is exhausted: the return value becomes equations
Return ==
    /\ pc = "contour"
    /\ ci > Len(contours)
    /\ equations' = ResultText(lines)
    /\ pc' = "respond"
    /\ UNCHANGED << request, inaccuracy_value, pipeline, error, fileRead, calls >>

\* the final render_template_string of the POST branch
Respond ==
    /\ pc = "respond"
    /\ pc' = "responded"
    /\ UNCHANGED << request, inaccuracy_value, pipeline, equations, error,
                    fileRead, calls >>

Next ==
    \/ Get
    \/ ValidateTolerance
    \/ GetFile
    \/ ReadAndDecode
    \/ NextContour
    \/ Segment
    \/ EndSegments
    \/ Return
    \/ Respond

Spec == Init /\ [][Next]_vars

-----------------------------------------------------------------------------
(* The segment loop on its own: image_to_equations has just received the   *)
(* polygon approx from approxPolyDP for the only contour of the image.     *)

Polygons == {q \in SeqsUpTo(PolyPoints, MaxV) : Len(q) >= 2}

InitPoly ==
    /\ pc = "segment"
    /\ method = "POST"
    /\ inaccuracy_str = "0.002"
    /\ file = "image"
    /\ inaccuracy_value = ParseFloat("0.002")
    /\ img_height \in PolyHeights
    /\ approx \in Polygons
    /\ contours = << approx >>
    /\ approxs = << approx >>
    /\ ci = 1
    /\ i = 0
    /\ lines = << >>
    /\ equations = << >>
    /\ error = ""
    /\ fileRead = TRUE
    /\ calls = 1

NextPoly ==
    \/ Segment
    \/ EndSegments
    \/ Return
    \/ Respond

SpecPoly == InitPoly /\ [][NextPoly]_vars

-----------------------------------------------------------------------------
(* Vocabulary of the properties *)

\* k-th segment of the closed polygon q, k = 1..Len(q): vertex k paired with
\* the next one, the last with the first
P1(q, k) == q[k]
P2(q, k) == IF k = Len(q) THEN q[1] ELSE q[k + 1]

CartY(h, y) == h - y

\* the fraction r equals n/d
FracIs(r, n, d) == r.num * d = n * r.den

\* r rounded to hundredths (half up), in hundredths
Round2(r) == (200 * r.num + r.den) \div (2 * r.den)

LoopOver == pc \in {"contour", "respond", "responded"}

-----------------------------------------------------------------------------
(* Properties of the segment loop (checked under SpecPoly, where lines     *)
(* holds the lines of the one polygon approx)                              *)

\* C1: a polygon with V >= 2 vertices gets exactly V lines, one per segment,
\* the k-th for vertex k paired with vertex k+1 and the last one for the
\* wrap-around pair (last, first); while the loop runs it has appended one
\* line per visited segment.
C1_SegmentCount ==
    /\ pc = "segment" => Len(lines) = i /\ i <= Len(approx)
    /\ LoopOver =>
         /\ Len(lines) = Len(approx)
         /\ \A k \in 1..Len(approx) :
              lines[k] = SegmentEquation(P1(approx, k), P2(approx, k), img_height)

C1_Witness ==
    /\ pc = "respond"
    /\ Len(approx) = 3
    /\ Len(lines) = 3
    /\ lines[3] = SegmentEquation(approx[3], approx[1], img_height)
    /\ approx[3] # approx[2]
    /\ approx[1] # approx[2]

\* C2: classification by strict precedence: vertical whenever dx = 0,
\* horizontal only when dx # 0 and dy = 0, a curve only when both differ; a
\* degenerate segment (p1 = p2) is a vertical line with a zero-length range.
C2_Precedence ==
    \A k \in 1..Len(lines) :
        LET p1 == P1(approx, k)
            p2 == P2(approx, k)
            dx == X(p2) - X(p1)
            dy == Y(p2) - Y(p1)
        IN  /\ (lines[k].kind = "vertical") <=> (dx = 0)
            /\ (lines[k].kind = "horizontal") <=> (dx # 0 /\ dy = 0)
            /\ (lines[k].kind = "curve") <=> (dx # 0 /\ dy # 0)
            /\ p1 = p2 => lines[k].kind = "vertical" /\ lines[k].lo = lines[k].hi

C2_Witness ==
    /\ pc = "respond"
    /\ \E k \in 1..Len(lines) :
         /\ P1(approx, k) = P2(approx, k)
         /\ lines[k].kind = "vertical"
         /\ lines[k].lo = lines[k].hi
    /\ \E k \in 1..Len(lines) : lines[k].kind = "curve"

\* C3: an axis-aligned segment carries the flip cartY = H - y and ordered
\* bounds: vertical x = p1.x with [min, max] of the two flipped y;
\* horizontal y = H - p1.y with [min, max] of the two x; lower <= upper;
\* row 0 maps to H and row H-1 maps to 1.
C3_AxisAligned ==
    \A k \in 1..Len(lines) :
        LET p1 == P1(approx, k)
            p2 == P2(approx, k)
            h  == img_height
            l  == lines[k]
        IN  /\ X(p1) = X(p2) =>
                 /\ l.at = X(p1)
                 /\ l.lo = Min(CartY(h, Y(p1)), CartY(h, Y(p2)))
                 /\ l.hi = Max(CartY(h, Y(p1)), CartY(h, Y(p2)))
                 /\ l.lo <= l.hi
                 /\ (Y(p1) = 0 \/ Y(p2) = 0) => l.hi = h
                 /\ (Y(p1) = h - 1 \/ Y(p2) = h - 1) => l.lo = 1
            /\ (X(p1) # X(p2) /\ Y(p1) = Y(p2)) =>
                 /\ l.at = CartY(h, Y(p1))
                 /\ l.lo = Min(X(p1), X(p2))
                 /\ l.hi = Max(X(p1), X(p2))
                 /\ l.lo <= l.hi
                 /\ Y(p1) = 0 => l.at = h
                 /\ Y(p1) = h - 1 => l.at = 1

C3_Witness ==
    /\ pc = "respond"
    /\ \E k \in 1..Len(lines) :
         /\ lines[k].kind = "horizontal"
         /\ Y(P1(approx, k)) = img_height - 1
         /\ lines[k].at = 1
         /\ X(P1(approx, k)) > X(P2(approx, k))
    /\ \E k \in 1..Len(lines) :
         /\ lines[k].kind = "vertical"
         /\ Y(P1(approx, k)) = 0
         /\ Y(P2(approx, k)) = img_height - 1
         /\ lines[k].lo = 1
         /\ lines[k].hi = img_height

\* C4: a non-axis-aligned segment carries, per axis and in this order, p1,
\* c1 = p1 + (p2 - p1)/3, c2 = p1 + 2(p2 - p1)/3 and p2, every y flipped as
\* H - y: 3*c1 = 2*p1 + p2 and 3*c2 = p1 + 2*p2 on x, and the same with
\* cartY on y.
C4_ControlPoints ==
    \A k \in 1..Len(lines) :
        LET p1 == P1(approx, k)
            p2 == P2(approx, k)
            h  == img_height
            l  == lines[k]
        IN  (X(p1) # X(p2) /\ Y(p1) # Y(p2)) =>
              /\ Len(l.xs) = 4 /\ Len(l.ys) = 4
              /\ FracIs(l.xs[1], X(p1), 1)
              /\ FracIs(l.xs[2], 3 * X(p1) + (X(p2) - X(p1)), 3)
              /\ FracIs(l.xs[3], 3 * X(p1) + 2 * (X(p2) - X(p1)), 3)
              /\ FracIs(l.xs[4], X(p2), 1)
              /\ 3 * l.xs[2].num = (2 * X(p1) + X(p2)) * l.xs[2].den
              /\ 3 * l.xs[3].num = (X(p1) + 2 * X(p2)) * l.xs[3].den
              /\ FracIs(l.ys[1], CartY(h, Y(p1)), 1)
              /\ FracIs(l.ys[4], CartY(h, Y(p2)), 1)
              /\ 3 * l.ys[2].num = (2 * CartY(h, Y(p1)) + CartY(h, Y(p2))) * l.ys[2].den
              /\ 3 * l.ys[3].num = (CartY(h, Y(p1)) + 2 * CartY(h, Y(p2))) * l.ys[3].den

C4_Witness ==
    /\ pc = "respond"
    /\ \E k \in 1..Len(lines) :
         /\ lines[k].kind = "curve"
         /\ P1(approx, k) = << 0, 1 >>
         /\ P2(approx, k) = << 1, 0 >>
         /\ lines[k].xs[2] = Div3(1)
         /\ lines[k].ys[2] = Div3(3 * img_height - 2)

\* number of lines of ls of the given kind
RECURSIVE CountKind(_, _)
CountKind(ls, kind) ==
    IF ls = << >> THEN 0
    ELSE (IF Head(ls).kind = kind THEN 1 ELSE 0) + CountKind(Tail(ls), kind)

Diagonal2(q) == Len(q) = 2 /\ X(q[1]) # X(q[2]) /\ Y(q[1]) # Y(q[2])

\* C5 as stated: the polygon with the vertices (0,0) and (10,10), and any
\* polygon of two vertices that differ in x and in y, yields exactly one
\* parametric curve, with the x coefficients 3.33 and 6.67.
C5_Original ==
    (LoopOver /\ Diagonal2(approx)) =>
        /\ CountKind(lines, "curve") = 1
        /\ approx = << << 0, 0 >>, << 10, 10 >> >> =>
             /\ Round2(lines[1].xs[2]) = 333
             /\ Round2(lines[1].xs[3]) = 667

\* C5 amended: such a polygon yields exactly two parametric curves and no
\* other line, the segment p1 -> p2 and the wrap-around segment p2 -> p1;
\* for (0,0), (10,10) the x coefficients of the first are 0, 10/3, 20/3, 10
\* (3.33 and 6.67 to two decimals) and those of the second are the same
\* reversed.
C5_TwoCurves ==
    (LoopOver /\ Diagonal2(approx)) =>
        /\ Len(lines) = 2
        /\ CountKind(lines, "curve") = 2
        /\ FracIs(lines[1].xs[1], X(approx[1]), 1)
        /\ FracIs(lines[1].xs[4], X(approx[2]), 1)
        /\ FracIs(lines[2].xs[1], X(approx[2]), 1)
        /\ FracIs(lines[2].xs[4], X(approx[1]), 1)
        /\ lines[2].xs[2] = lines[1].xs[3]
        /\ lines[2].xs[3] = lines[1].xs[2]
        /\ approx = << << 0, 0 >>, << 10, 10 >> >> =>
             /\ FracIs(lines[1].xs[2], 10, 3)
             /\ FracIs(lines[1].xs[3], 20, 3)
             /\ Round2(lines[1].xs[2]) = 333
             /\ Round2(lines[1].xs[3]) = 667
             /\ Round2(lines[2].xs[2]) = 667
             /\ Round2(lines[2].xs[3]) = 333

C5_Witness ==
    /\ pc = "respond"
    /\ approx = << << 0, 0 >>, << 10, 10 >> >>
    /\ Len(lines) = 2
    /\ Round2(lines[1].xs[2]) = 333
    /\ Round2(lines[1].xs[3]) = 667

-----------------------------------------------------------------------------
(* Properties of a whole request (checked under Spec) *)

Returned == pc \in {"respond", "responded"} /\ calls = 1 /\ error = ""

\* C6: image_to_equations returns exactly the fallback line and nothing
\* else if and only if no equation was produced over all contours (zero
\* contours included); otherwise it returns the equations in visiting order,
\* and the fallback line is not among them.
C6_Fallback ==
    Returned =>
        /\ (equations = << FallbackLine >>) <=> (lines = << >>)
        /\ contours = << >> => equations = << FallbackLine >>
        /\ lines # << >> =>
             /\ equations = lines
             /\ \A k \in 1..Len(equations) : equations[k] # FallbackLine

C6_Witness ==
    /\ pc = "responded"
    /\ calls = 1
    /\ Len(contours) = 2
    /\ \A k \in 1..2 : Len(contours[k]) = 2
    /\ lines = << >>
    /\ equations = << FallbackLine >>

\* the tolerance field is no positive number: no float literal, NaN, or <= 0
NotPositiveNumber(s) ==
    LET v == ParseFloat(s) IN ~v.ok \/ v.nan \/ v.milli <= 0

\* C8: a POST whose tolerance is non-numeric or <= 0 gets the validation
\* error with empty equations before any image processing: the file is never
\* read or decoded and image_to_equations is never called.
C8_ValidationFirst ==
    (method = "POST" /\ NotPositiveNumber(inaccuracy_str)) =>
        /\ ~fileRead
        /\ calls = 0
        /\ pc = "responded" => error = ValidationMsg /\ equations = << >>

\* C8 holds for every tolerance but NaN: text float() rejects and values
\* <= 0 never get past the validation.
C8_ExceptNaN ==
    (method = "POST" /\ NotPositiveNumber(inaccuracy_str) /\ inaccuracy_str # "nan") =>
        /\ ~fileRead
        /\ calls = 0
        /\ pc = "responded" => error = ValidationMsg /\ equations = << >>

\* the lines of the closed polygon q, one per vertex
PolygonLines(q, h) ==
    [k \in 1..Len(q) |-> SegmentEquation(P1(q, k), P2(q, k), h)]

\* the lines of the polygons of qs, in order; no polygon is skipped
RECURSIVE AllLines(_, _)
AllLines(qs, h) ==
    IF qs = << >> THEN << >>
    ELSE PolygonLines(Head(qs), h) \o AllLines(Tail(qs), h)

\* the polygons of the first n contours without the skipped ones: contours
\* of fewer than 2 points and polygons of fewer than 2 vertices
RECURSIVE KeptPolygons(_)
KeptPolygons(n) ==
    IF n = 0 THEN << >>
    ELSE IF Len(contours[n]) >= 2 /\ Len(approxs[n]) >= 2
           THEN Append(KeptPolygons(n - 1), approxs[n])
           ELSE KeptPolygons(n - 1)

\* C9: a contour of 0 or 1 points, and one whose simplification has fewer
\* than 2 vertices, contributes no line and raises no error; the other
\* contours are still processed, so the lines (and the returned text) are
\* those of the list without the skipped contours.
C9_SkipAndContinue ==
    /\ pc = "contour" =>
         /\ Len(approxs) = ci - 1
         /\ lines = AllLines(KeptPolygons(ci - 1), img_height)
         /\ error = ""
    /\ Returned =>
         /\ Len(approxs) = Len(contours)
         /\ equations = ResultText(AllLines(KeptPolygons(Len(contours)), img_height))

C9_Witness ==
    /\ pc = "respond"
    /\ error = ""
    /\ Len(contours) = 2
    /\ Len(contours[1]) = 2
    /\ Len(approxs[1]) = 1
    /\ Len(approxs[2]) = 2
    /\ Len(lines) = 2
    /\ equations = lines

\* C10: undecodable bytes: the pipeline does not run and the failure is
\* reported with a message; every request that ends in a decode or
\* processing failure answers a non-empty error and empty equations; no
\* response carries both an error and equations.
C10_Failures ==
    /\ (file \in {"empty", "corrupt"} /\ fileRead) =>
         /\ pc \in {"respond", "responded"}
         /\ error \in {DecodeMsg, LibraryMsg}
         /\ file = "corrupt" => error = DecodeMsg
         /\ contours = << >> /\ approxs = << >> /\ lines = << >>
         /\ equations = << >>
    /\ (pc = "respond" /\ equations = << >>) => error # ""
    /\ error # "" => equations = << >>

C10_Witness ==
    /\ pc = "responded"
    /\ file = "corrupt"
    /\ calls = 1
    /\ error = DecodeMsg
    /\ equations = << >>

=============================================================================
